---------------------------- MODULE Spec2Model ----------------------------
(***************************************************************************)
(* Model of coregrind/m_demangle/demangle.c: the Z-decoder                 *)
(* VG_(maybe_Z_demangle), the Rust heuristic rust_is_mangled, the in-place *)
(* Rust decoder rust_demangle_sym and the orchestrator VG_(demangle).      *)
(*                                                                         *)
(* A C string is a sequence of one-character strings; C index i is         *)
(* sequence index i+1.  Reading the byte at index Len(s) yields NUL.       *)
(***************************************************************************)
EXTENDS Integers, Sequences, FiniteSets, TLC

VARIABLES
    pc,          \* position of the caller: "idle", "ret", "scan", "done", "fatal"
    clo_demangle,\* VG_(clo_demangle), fixed at start-up
    sobuf,       \* static HChar *sobuf : the C string it holds
    fnbuf,       \* static HChar *fnbuf : the C string it holds
    buf_len,     \* static SizeT buf_len : capacity of sobuf and of fnbuf
    demangled,   \* static HChar *demangled : 0 (NULL) or a heap block id
    heap,        \* heap blocks of VG_AR_DEMANGLE handed out by stage 1
    nalloc,      \* number of heap blocks stage 1 has handed out so far
    rawMem,      \* the caller's own strings (the 'orig' arguments)
    view,        \* a result pointer the caller stashed, with the contents then
    call,        \* arguments and outcome of the call that just returned
    zout,        \* out-parameters and outcome of VG_(maybe_Z_demangle)
    rs           \* rust_demangle_sym's frame: sym, buffer, in, out

vars == << pc, clo_demangle, sobuf, fnbuf, buf_len, demangled, heap, nalloc,
           rawMem, view, call, zout, rs >>

-----------------------------------------------------------------------------
(* Characters and C-string reads *)

NUL == "NUL"
OOB == "OOB"

\* sym[i] for a NUL-terminated string whose characters are s
At(s, i) ==
    IF i >= 0 /\ i < Len(s) THEN s[i + 1]
    ELSE IF i = Len(s) THEN NUL
    ELSE OOB

DigitChars == << "0", "1", "2", "3", "4", "5", "6", "7", "8", "9" >>

isdigit(c) == \E k \in 1..Len(DigitChars) : DigitChars[k] = c

\* (Int)c - '0' for a digit c
DigitVal(c) == (CHOOSE k \in 1..Len(DigitChars) : DigitChars[k] = c) - 1

LowerChars == { "a", "b", "c", "d", "e", "f", "g", "h", "i", "j", "k", "l", "m",
                "n", "o", "p", "q", "r", "s", "t", "u", "v", "w", "x", "y", "z" }

UpperChars == { "A", "B", "C", "D", "E", "F", "G", "H", "I", "J", "K", "L", "M",
                "N", "O", "P", "Q", "R", "S", "T", "U", "V", "W", "X", "Y", "Z" }

Max(a, b) == IF a >= b THEN a ELSE b

Min2(a, b) == IF a <= b THEN a ELSE b

\* VG_(strncmp)(str + i, seq, Len(seq)) == 0
MatchAt(s, i, seq) == \A k \in 1..Len(seq) : At(s, i + k - 1) = seq[k]

-----------------------------------------------------------------------------
(* VG_(maybe_Z_demangle) *)

\* the value an out-parameter of type Int holds while nothing is written to it
UnsetInt == -1

\* the selector switch shared by the soname and the fnname loop; "bad" is default:
ZEscape(c) ==
    CASE c = "a" -> "*"
      [] c = "c" -> ":"
      [] c = "d" -> "."
      [] c = "h" -> "-"
      [] c = "p" -> "+"
      [] c = "s" -> " "
      [] c = "u" -> "_"
      [] c = "A" -> "@"
      [] c = "D" -> "$"
      [] c = "L" -> "("
      [] c = "P" -> "%"
      [] c = "R" -> ")"
      [] c = "S" -> "/"
      [] c = "Z" -> "Z"
      [] OTHER -> "bad"

\* GrowBufLen sizing the buffers on the first call only
GrowBufLen_FirstOnly(blen, len) == IF blen = 0 THEN len ELSE blen

\* if (buf_len < len) { realloc both to len; buf_len = len; }
GrowBufLen(blen, len) == IF blen < len THEN len ELSE blen

\* the 12-byte header test, with C's left-to-right short circuit
HeaderValid(sym) ==
    /\ At(sym, 0) = "_"
    /\ At(sym, 1) = "v"
    /\ At(sym, 2) = "g"
    /\ (At(sym, 3) = "r" \/ At(sym, 3) = "w")
    /\ isdigit(At(sym, 4))
    /\ isdigit(At(sym, 5))
    /\ isdigit(At(sym, 6))
    /\ isdigit(At(sym, 7))
    /\ isdigit(At(sym, 8))
    /\ At(sym, 9) = "Z"
    /\ (At(sym, 10) = "Z" \/ At(sym, 10) = "U")
    /\ At(sym, 11) = "_"

\* TagZeroPrioNonZero with the "tag 0000 implies priority 0" rule left out
TagZeroPrioNonZero_Never(sym) == FALSE

\* eclass tag 0000 with a priority other than 0
TagZeroPrioNonZero(sym) ==
    /\ At(sym, 4) = "0" /\ At(sym, 5) = "0" /\ At(sym, 6) = "0" /\ At(sym, 7) = "0"
    /\ At(sym, 8) # "0"

EclassTagOf(sym) ==
    1000 * DigitVal(At(sym, 4)) + 100 * DigitVal(At(sym, 5))
    + 10 * DigitVal(At(sym, 6)) + DigitVal(At(sym, 7))

EclassPrioOf(sym) == DigitVal(At(sym, 8))

\* IsVGZPrefixed looking one byte too far into the soname
IsVGZPrefixed_OffByOne(sym) ==
    /\ At(sym, 13) = "V"
    /\ At(sym, 14) = "G"
    /\ At(sym, 15) = "_"
    /\ At(sym, 16) = "Z"
    /\ At(sym, 17) = "_"

\* is_VG_Z_prefixed: the five bytes that follow the header, as they stand in sym
IsVGZPrefixed(sym) ==
    /\ At(sym, 12) = "V"
    /\ At(sym, 13) = "G"
    /\ At(sym, 14) = "_"
    /\ At(sym, 15) = "Z"
    /\ At(sym, 16) = "_"

\* EMITSO(ch): with so given, sobuf[soi++] = ch; sobuf[soi] = 0.  f is the frame
\* [i, soi, fni, so, fn, sohi, fnhi, error]; so and fn are the C strings the two
\* buffers hold, sohi and fnhi the highest index written so far.
EmitSo(f, wantSo, ch) ==
    IF wantSo
    THEN [f EXCEPT !.so = IF ch = NUL THEN SubSeq(f.so, 1, Min2(f.soi, Len(f.so)))
                          ELSE Append(SubSeq(f.so, 1, Min2(f.soi, Len(f.so))), ch),
                   !.soi = f.soi + 1,
                   !.sohi = Max(f.sohi, f.soi + 1)]
    ELSE f

\* EMITFN(ch): fnbuf[fni++] = ch; fnbuf[fni] = 0
EmitFn(f, ch) ==
    [f EXCEPT !.fn = IF ch = NUL THEN SubSeq(f.fn, 1, Min2(f.fni, Len(f.fn)))
                     ELSE Append(SubSeq(f.fn, 1, Min2(f.fni, Len(f.fn))), ch),
              !.fni = f.fni + 1,
              !.fnhi = Max(f.fnhi, f.fni + 1)]

\* the soname loop, from index f.i; ends at the delimiter or with error set
RECURSIVE SoLoop(_, _, _)
SoLoop(sym, wantSo, f) ==
    IF At(sym, f.i) = "_" THEN f
    ELSE IF At(sym, f.i) = NUL THEN [f EXCEPT !.error = TRUE]
    ELSE IF At(sym, f.i) # "Z"
         THEN SoLoop(sym, wantSo, [EmitSo(f, wantSo, At(sym, f.i)) EXCEPT !.i = f.i + 1])
    ELSE IF ZEscape(At(sym, f.i + 1)) = "bad"
         THEN [f EXCEPT !.i = f.i + 1, !.error = TRUE]
    ELSE SoLoop(sym, wantSo,
                [EmitSo(f, wantSo, ZEscape(At(sym, f.i + 1))) EXCEPT !.i = f.i + 2])

\* the verbatim copy of an un-encoded fnname
RECURSIVE FnCopy(_, _)
FnCopy(sym, f) ==
    IF At(sym, f.i) = NUL THEN f
    ELSE FnCopy(sym, [EmitFn(f, At(sym, f.i)) EXCEPT !.i = f.i + 1])

\* the Z-decoding loop of an encoded fnname
RECURSIVE FnLoop(_, _)
FnLoop(sym, f) ==
    IF At(sym, f.i) = NUL THEN f
    ELSE IF At(sym, f.i) # "Z"
         THEN FnLoop(sym, [EmitFn(f, At(sym, f.i)) EXCEPT !.i = f.i + 1])
    ELSE IF ZEscape(At(sym, f.i + 1)) = "bad"
         THEN [f EXCEPT !.i = f.i + 1, !.error = TRUE]
    ELSE FnLoop(sym, [EmitFn(f, ZEscape(At(sym, f.i + 1))) EXCEPT !.i = f.i + 2])

\* ZScan emptying both buffers when the scan ends in an error
ZScan_ClearOnError(sym, wantSo) ==
    LET f0 == [i |-> 12, soi |-> 0, fni |-> 0, so |-> << >>, fn |-> << >>,
               sohi |-> 0, fnhi |-> 0, error |-> FALSE]
        f1 == SoLoop(sym, wantSo, f0)
        f2 == IF f1.error THEN f1
              ELSE IF At(sym, 10) # "Z" THEN FnCopy(sym, [f1 EXCEPT !.i = f1.i + 1])
              ELSE FnLoop(sym, [f1 EXCEPT !.i = f1.i + 1])
        f3 == EmitFn(EmitSo(f2, wantSo, NUL), NUL)
    IN  IF f3.error THEN [f3 EXCEPT !.so = << >>, !.fn = << >>] ELSE f3

\* from "i = 12" to the end of the fnname part, then out: EMITSO(0); EMITFN(0)
ZScan(sym, wantSo) ==
    LET f0 == [i |-> 12, soi |-> 0, fni |-> 0, so |-> << >>, fn |-> << >>,
               sohi |-> 0, fnhi |-> 0, error |-> FALSE]
        f1 == SoLoop(sym, wantSo, f0)
        f2 == IF f1.error THEN f1
              ELSE IF At(sym, 10) # "Z" THEN FnCopy(sym, [f1 EXCEPT !.i = f1.i + 1])
              ELSE FnLoop(sym, [f1 EXCEPT !.i = f1.i + 1])
    IN  EmitFn(EmitSo(f2, wantSo, NUL), NUL)

\* The whole call.  a = [so, isWrap, eclassTag, eclassPrio]: which out-pointers
\* the caller passes non-NULL (fn is always passed).  blen: buf_len on entry.
\* ret is "True", "False", or "fatal" when vg_assert2(0, ...) ends the process.
maybe_Z_demangle(sym, a, blen) ==
    LET len   == Len(sym) + 1
        cap   == GrowBufLen(blen, len)
        valid == HeaderValid(sym) /\ ~TagZeroPrioNonZero(sym)
        early == [ret |-> "False", buf_len |-> cap, so |-> << >>, fn |-> << >>,
                  sohi |-> 0, fnhi |-> 0, soSet |-> a.so, fnSet |-> TRUE,
                  isWrap |-> "unset", eclassTag |-> UnsetInt, eclassPrio |-> UnsetInt]
        meta  == [early EXCEPT
                    !.isWrap = IF a.isWrap
                               THEN (IF At(sym, 3) = "w" THEN "true" ELSE "false")
                               ELSE "unset",
                    !.eclassTag = IF a.eclassTag THEN EclassTagOf(sym) ELSE UnsetInt,
                    !.eclassPrio = IF a.eclassPrio THEN EclassPrioOf(sym) ELSE UnsetInt]
        f     == ZScan(sym, a.so)
    IN  IF ~valid THEN early
        ELSE IF IsVGZPrefixed(sym) THEN [meta EXCEPT !.ret = "fatal"]
        ELSE [meta EXCEPT !.ret = IF f.error THEN "False" ELSE "True",
                          !.so = f.so, !.fn = f.fn, !.sohi = f.sohi, !.fnhi = f.fnhi]

-----------------------------------------------------------------------------
(* rust_is_mangled, is_prefixed_hash, looks_like_rust *)

hash_prefix == << ":", ":", "h" >>

hash_prefix_len == 3

hash_len == 16

HexChars == << "0", "1", "2", "3", "4", "5", "6", "7", "8", "9",
               "a", "b", "c", "d", "e", "f" >>

\* the escape sequences, in the order rust_demangle_sym tries them
RustEscapes ==
    << [seq |-> << "$", "C", "$" >>, value |-> ","],
       [seq |-> << "$", "S", "P", "$" >>, value |-> "@"],
       [seq |-> << "$", "B", "P", "$" >>, value |-> "*"],
       [seq |-> << "$", "R", "F", "$" >>, value |-> "&"],
       [seq |-> << "$", "L", "T", "$" >>, value |-> "<"],
       [seq |-> << "$", "G", "T", "$" >>, value |-> ">"],
       [seq |-> << "$", "L", "P", "$" >>, value |-> "("],
       [seq |-> << "$", "R", "P", "$" >>, value |-> ")"],
       [seq |-> << "$", "u", "2", "0", "$" >>, value |-> " "],
       [seq |-> << "$", "u", "2", "2", "$" >>, value |-> "\""],
       [seq |-> << "$", "u", "2", "7", "$" >>, value |-> "'"],
       [seq |-> << "$", "u", "2", "b", "$" >>, value |-> "+"],
       [seq |-> << "$", "u", "3", "b", "$" >>, value |-> ";"],
       [seq |-> << "$", "u", "5", "b", "$" >>, value |-> "["],
       [seq |-> << "$", "u", "5", "d", "$" >>, value |-> "]"],
       [seq |-> << "$", "u", "7", "b", "$" >>, value |-> "{"],
       [seq |-> << "$", "u", "7", "d", "$" >>, value |-> "}"],
       [seq |-> << "$", "u", "7", "e", "$" >>, value |-> "~"] >>

\* index in RustEscapes of the first sequence that matches s at i, or 0
EscapeAt(s, i) ==
    IF \E k \in 1..Len(RustEscapes) : MatchAt(s, i, RustEscapes[k].seq)
    THEN CHOOSE k \in 1..Len(RustEscapes) :
            /\ MatchAt(s, i, RustEscapes[k].seq)
            /\ \A j \in 1..(k - 1) : ~MatchAt(s, i, RustEscapes[j].seq)
    ELSE 0

\* HashCountOk with the upper limit off by one
HashCountOk_UpTo16(count) == count >= 5 /\ count <= 16

\* return count >= 5 && count <= 15;
HashCountOk(count) == count >= 5 /\ count <= 15

\* is_prefixed_hash(sym + start)
is_prefixed_hash(s, start) ==
    LET digits == { At(s, start + hash_prefix_len + k) : k \in 0..(hash_len - 1) }
        seen   == { k \in 1..Len(HexChars) : HexChars[k] \in digits }
    IN  /\ MatchAt(s, start, hash_prefix)
        /\ \A c \in digits : \E k \in 1..Len(HexChars) : HexChars[k] = c
        /\ HashCountOk(Cardinality(seen))

\* the characters of the second group of case labels in looks_like_rust
RustPlainChar(c) ==
    \/ c \in LowerChars
    \/ c \in UpperChars
    \/ isdigit(c)
    \/ c = "_"
    \/ c = ":"

\* looks_like_rust(str, len), scanning from index i
RECURSIVE looks_like_rust(_, _, _)
looks_like_rust(s, i, len) ==
    IF ~(i < len) THEN TRUE
    ELSE IF At(s, i) = "$"
         THEN /\ EscapeAt(s, i) # 0
              /\ looks_like_rust(s, i + Len(RustEscapes[EscapeAt(s, i)].seq), len)
    ELSE IF At(s, i) = "."
         THEN /\ ~MatchAt(s, i, << ".", ".", "." >>)
              /\ looks_like_rust(s, i + 1, len)
    ELSE IF RustPlainChar(At(s, i)) THEN looks_like_rust(s, i + 1, len)
    ELSE FALSE

rust_is_mangled(s) ==
    IF Len(s) <= hash_prefix_len + hash_len THEN FALSE
    ELSE LET len_without_hash == Len(s) - (hash_prefix_len + hash_len)
         IN  /\ is_prefixed_hash(s, len_without_hash)
             /\ looks_like_rust(s, 0, len_without_hash)

-----------------------------------------------------------------------------
(* rust_demangle_sym and unescape.  The frame r is [sym, buf, in, out, mangled]:
   sym the string on entry, buf the buffer being rewritten (with its NUL),
   in and out the two cursors as indices into buf. *)

\* the C string a buffer holds
CStr(buf) ==
    IF \E k \in 1..Len(buf) : buf[k] = NUL
    THEN SubSeq(buf, 1, (CHOOSE k \in 1..Len(buf) :
                            buf[k] = NUL /\ \A j \in 1..(k - 1) : buf[j] # NUL) - 1)
    ELSE buf

\* buf[i] = c
Poke(buf, i, c) ==
    IF i >= 0 /\ i < Len(buf) THEN [buf EXCEPT ![i + 1] = c] ELSE buf

\* the frame on entry: in = sym; out = sym;
RustEnter(s) ==
    [sym |-> s, buf |-> Append(s, NUL), in |-> 0, out |-> 0, mangled |-> TRUE]

\* RustEnd scanning up to the end of the string, the hash included
RustEnd_KeepHash(r) == Len(r.sym)

\* end = sym + sym_len - (hash_prefix_len + hash_len)
RustEnd(r) == Len(r.sym) - (hash_prefix_len + hash_len)

\* case '_': is this underscore skipped?
SkipUnderscore(r) ==
    /\ (r.in = 0 \/ At(r.buf, r.in - 1) = ":")
    /\ At(r.buf, r.in + 1) = "$"

\* DotOut writing "::" for a single dot too
DotOut_AlwaysColons(r) == << ":", ":" >>

\* case '.': what is written, and how far in advances
DotOut(r) == IF At(r.buf, r.in + 1) = "." THEN << ":", ":" >> ELSE << "-" >>

DotIn(r) == IF At(r.buf, r.in + 1) = "." THEN 2 ELSE 1

\* *out++ = c for each c of w in turn, then in += n
WriteAdvance(r, w, n) ==
    LET b1 == IF Len(w) >= 1 THEN Poke(r.buf, r.out, w[1]) ELSE r.buf
        b2 == IF Len(w) >= 2 THEN Poke(b1, r.out + 1, w[2]) ELSE b1
    IN  [r EXCEPT !.buf = b2, !.out = r.out + Len(w), !.in = r.in + n]

\* one turn of the while loop; failed is set where the code does goto fail
RustStep(r) ==
    LET c == At(r.buf, r.in)
        k == EscapeAt(r.buf, r.in)
    IN  IF c = "$"
        THEN IF k # 0
             THEN [r |-> WriteAdvance(r, << RustEscapes[k].value >>,
                                      Len(RustEscapes[k].seq)),
                   failed |-> FALSE]
             ELSE [r |-> r, failed |-> TRUE]
        ELSE IF c = "_"
        THEN IF SkipUnderscore(r)
             THEN [r |-> WriteAdvance(r, << >>, 1), failed |-> FALSE]
             ELSE [r |-> WriteAdvance(r, << c >>, 1), failed |-> FALSE]
        ELSE IF c = "."
        THEN [r |-> WriteAdvance(r, DotOut(r), DotIn(r)), failed |-> FALSE]
        ELSE IF c \in LowerChars \/ c \in UpperChars \/ isdigit(c) \/ c = ":"
        THEN [r |-> WriteAdvance(r, << c >>, 1), failed |-> FALSE]
        ELSE [r |-> r, failed |-> TRUE]

\* fail: *out++ = '?';
RustFail(r) == WriteAdvance(r, << "?" >>, 0)

\* done: *out++ = '\0';
RustTerminate(r) == WriteAdvance(r, << NUL >>, 0)

\* the whole call, from a frame in the loop to the frame at the assertion
RECURSIVE RustRun(_)
RustRun(r) ==
    IF r.in < RustEnd(r)
    THEN LET s == RustStep(r)
         IN  IF s.failed THEN RustTerminate(RustFail(s.r)) ELSE RustRun(s.r)
    ELSE RustTerminate(r)

\* the string rust_demangle_sym leaves in a buffer that held s
rust_demangle_sym(s) == CStr(RustRun(RustEnter(s)).buf)

-----------------------------------------------------------------------------
(* Values the variables hold while the part of the program they belong to
   has not run *)

NoArgs == [so |-> FALSE, isWrap |-> FALSE, eclassTag |-> FALSE, eclassPrio |-> FALSE]

AllArgs == [so |-> TRUE, isWrap |-> TRUE, eclassTag |-> TRUE, eclassPrio |-> TRUE]

\* zout before any call: nothing written through any out-pointer
NoZOut ==
    [sym |-> << >>, a |-> NoArgs, ret |-> "none", soSet |-> FALSE, fnSet |-> FALSE,
     isWrap |-> "unset", eclassTag |-> UnsetInt, eclassPrio |-> UnsetInt,
     sohi |-> 0, fnhi |-> 0, cap |-> 0]

\* zout after a call with result record r
ZOutOf(sym, a, r) ==
    [sym |-> sym, a |-> a, ret |-> r.ret, soSet |-> r.soSet, fnSet |-> r.fnSet,
     isWrap |-> r.isWrap, eclassTag |-> r.eclassTag, eclassPrio |-> r.eclassPrio,
     sohi |-> r.sohi, fnhi |-> r.fnhi, cap |-> r.buf_len]

NullPtr == [reg |-> "null", id |-> 0]

\* a stashed pointer, the kind of call that returned it, the string it pointed at
\* when stashed, and whether VG_(maybe_Z_demangle) has run since
NoView == [ptr |-> NullPtr, by |-> "none", snap |-> << >>, zsince |-> FALSE]

\* call before any call: kind is "none", then "demangle" or "z"; avail says
\* whether ML_(cplus_demangle) has a result for the string stage 1 would be given
NoCall ==
    [kind |-> "none", do_cxx |-> FALSE, do_z |-> FALSE, raw |-> << >>,
     orig |-> NullPtr, pre |-> NullPtr, reached1 |-> FALSE, avail |-> FALSE,
     s1 |-> "notrun", s1str |-> << >>, result |-> NullPtr, held |-> 0]

NoRs == [sym |-> << >>, buf |-> << >>, in |-> 0, out |-> 0, mangled |-> FALSE]

-----------------------------------------------------------------------------
(* Inputs of the Z-decoder *)

\* longest body, in chunks, that follows a header
MaxZChunks == 4

ZChunks ==
    { << "a" >>, << "Z" >>, << "Z", "u" >>, << "Z", "q" >>, << "_" >>,
      << "V", "G", "_", "Z", "_" >>,
      << "V", "G", "Z", "u", "Z", "Z", "Z", "u" >> }

ZHeaders ==
    { << "_", "v", "g", "r", "0", "0", "0", "0", "0", "Z", "Z", "_" >>,
      << "_", "v", "g", "w", "0", "0", "0", "0", "0", "Z", "U", "_" >>,
      << "_", "v", "g", "w", "1", "2", "3", "4", "5", "Z", "Z", "_" >>,
      << "_", "v", "g", "r", "0", "0", "1", "0", "0", "Z", "U", "_" >>,
      << "_", "v", "g", "r", "0", "0", "0", "0", "5", "Z", "U", "_" >>,
      << "_", "v", "g", "x", "0", "0", "0", "0", "0", "Z", "Z", "_" >>,
      << "_", "v", "g", "r", "0", "a", "0", "0", "0", "Z", "Z", "_" >>,
      << "_", "v", "g", "r", "0", "0", "0", "0", "0", "Z", "X", "_" >>,
      << "_", "v", "g", "r", "0", "0", "0", "0", "0", "Z", "Z", "a" >>,
      << "_", "v", "g", "r", "0", "0", "0", "0" >>,
      << >> }

ZArgSets ==
    { NoArgs, AllArgs,
      [so |-> TRUE, isWrap |-> FALSE, eclassTag |-> TRUE, eclassPrio |-> FALSE],
      [so |-> FALSE, isWrap |-> TRUE, eclassTag |-> FALSE, eclassPrio |-> TRUE] }

\* all concatenations of at most n members of C
RECURSIVE Concats(_, _)
Concats(C, n) ==
    IF n = 0 THEN { << >> }
    ELSE LET P == Concats(C, n - 1) IN P \cup { p \o c : p \in P, c \in C }

\* the well-formed headers that the long bodies follow
ZMainHeaders ==
    { << "_", "v", "g", "r", "0", "0", "0", "0", "0", "Z", "Z", "_" >>,
      << "_", "v", "g", "w", "0", "0", "0", "0", "0", "Z", "U", "_" >>,
      << "_", "v", "g", "w", "1", "2", "3", "4", "5", "Z", "Z", "_" >> }

\* every body after the well-formed headers, the shortest bodies after every header
ZInputs ==
    { h \o b : h \in ZMainHeaders, b \in Concats(ZChunks, MaxZChunks) }
    \cup { h \o b : h \in ZHeaders, b \in Concats(ZChunks, 2) }

-----------------------------------------------------------------------------
(* SpecZ: one call of VG_(maybe_Z_demangle) on each input, in a fresh process *)

InitZ ==
    /\ pc = "idle"
    /\ clo_demangle = TRUE
    /\ sobuf = << >> /\ fnbuf = << >> /\ buf_len = 0
    /\ demangled = 0 /\ heap = << >> /\ nalloc = 0
    /\ rawMem = << >> /\ view = NoView /\ call = NoCall /\ rs = NoRs
    /\ \E s \in ZInputs, a \in ZArgSets : zout = [NoZOut EXCEPT !.sym = s, !.a = a]

\* the call returns, or the assertion ends the process
ZCall ==
    /\ pc = "idle"
    /\ LET r == maybe_Z_demangle(zout.sym, zout.a, buf_len)
       IN  /\ zout' = ZOutOf(zout.sym, zout.a, r)
           /\ sobuf' = r.so
           /\ fnbuf' = r.fn
           /\ buf_len' = r.buf_len
           /\ pc' = IF r.ret = "fatal" THEN "fatal" ELSE "ret"
    /\ UNCHANGED << clo_demangle, demangled, heap, nalloc, rawMem, view, call, rs >>

NextZ == ZCall

SpecZ == InitZ /\ [][NextZ]_vars

-----------------------------------------------------------------------------
(* Inputs of the Rust heuristic and decoder *)

\* longest part before the hash suffix, in chunks
MaxRChunks == 4

RChunks ==
    { << "a" >>, << "_" >>, << ":" >>, << "." >>, << "#" >>,
      << "$", "L", "T", "$" >>, << "$", "C", "$" >>, << "$", "u", "2", "0", "$" >>,
      << "$", "X", "$" >> }

\* hash_len hex digits that use exactly k distinct values (k in 1..16)
CycleHash(k) == [i \in 1..hash_len |-> HexChars[((i - 1) % k) + 1]]

ExampleHash ==
    << "c", "6", "8", "3", "4", "0", "e", "1", "b", "a", "a", "4", "9", "8", "7", "a" >>

RTails ==
    { hash_prefix \o ExampleHash,
      hash_prefix \o CycleHash(1),
      hash_prefix \o CycleHash(4),
      hash_prefix \o CycleHash(5),
      hash_prefix \o CycleHash(15),
      hash_prefix \o CycleHash(16),
      hash_prefix \o [ExampleHash EXCEPT ![hash_len] = "g"],
      hash_prefix \o [ExampleHash EXCEPT ![1] = "C"],
      hash_prefix \o SubSeq(ExampleHash, 1, hash_len - 1),
      << ":", ".", "h" >> \o ExampleHash,
      << >> }

\* the example of the comment above rust_is_mangled, and what it stands for
ExampleMangled ==
    << "_", "$", "L", "T", "$", "s", "t", "d", ".", ".", "s", "y", "s", ".",
       ".", "f", "d", ".", ".", "F", "i", "l", "e", "D", "e", "s", "c", "$",
       "u", "2", "0", "$", "a", "s", "$", "u", "2", "0", "$", "c", "o", "r",
       "e", ".", ".", "o", "p", "s", ".", ".", "D", "r", "o", "p", "$", "G",
       "T", "$", ":", ":", "d", "r", "o", "p", ":", ":", "h", "c", "6", "8",
       "3", "4", "0", "e", "1", "b", "a", "a", "4", "9", "8", "7", "a" >>

ExampleOriginal ==
    << "<", "s", "t", "d", ":", ":", "s", "y", "s", ":", ":", "f", "d", ":",
       ":", "F", "i", "l", "e", "D", "e", "s", "c", " ", "a", "s", " ", "c",
       "o", "r", "e", ":", ":", "o", "p", "s", ":", ":", "D", "r", "o", "p",
       ">", ":", ":", "d", "r", "o", "p" >>

\* every prefix before the example hash, every tail after the shortest prefixes
\* paths that themselves end in a hash, written :: or .., before the hash
RNested ==
    { p \o sep \o << "h" >> \o CycleHash(k) \o hash_prefix \o ExampleHash :
        p \in Concats(RChunks, 1),
        sep \in { << ":", ":" >>, << ".", "." >>, << ":", "." >> },
        k \in { 4, 15, 16 } }

RustInputs ==
    { p \o hash_prefix \o ExampleHash : p \in Concats(RChunks, MaxRChunks) }
    \cup { p \o t : p \in Concats(RChunks, 1), t \in RTails }
    \cup { ExampleMangled }
    \cup RNested

-----------------------------------------------------------------------------
(* SpecRust: the gate "if (rust_is_mangled(demangled)) rust_demangle_sym(demangled)"
   of VG_(demangle) on each buffer, the decoder run one loop turn at a time *)

InitRust ==
    /\ pc = "idle"
    /\ clo_demangle = TRUE
    /\ sobuf = << >> /\ fnbuf = << >> /\ buf_len = 0
    /\ demangled = 0 /\ heap = << >> /\ nalloc = 0
    /\ rawMem = << >> /\ view = NoView /\ call = NoCall /\ zout = NoZOut
    /\ \E s \in RustInputs : rs = [RustEnter(s) EXCEPT !.mangled = FALSE]

\* if (rust_is_mangled(demangled)) ... : enter rust_demangle_sym or skip it
RustGate ==
    /\ pc = "idle"
    /\ rs' = [rs EXCEPT !.mangled = rust_is_mangled(rs.sym)]
    /\ pc' = IF rust_is_mangled(rs.sym) THEN "scan" ELSE "skip"
    /\ UNCHANGED << clo_demangle, sobuf, fnbuf, buf_len, demangled, heap, nalloc,
                    rawMem, view, call, zout >>

\* one turn of while (in < end); a goto fail runs on to the assertion
RustScan ==
    /\ pc = "scan"
    /\ rs.in < RustEnd(rs)
    /\ LET s == RustStep(rs)
       IN  IF s.failed
           THEN /\ rs' = RustTerminate(RustFail(s.r))
                /\ pc' = "done"
           ELSE /\ rs' = s.r
                /\ pc' = "scan"
    /\ UNCHANGED << clo_demangle, sobuf, fnbuf, buf_len, demangled, heap, nalloc,
                    rawMem, view, call, zout >>

\* the loop ends: goto done; *out++ = '\0'; vg_assert(out <= never_after)
RustDone ==
    /\ pc = "scan"
    /\ ~(rs.in < RustEnd(rs))
    /\ rs' = RustTerminate(rs)
    /\ pc' = "done"
    /\ UNCHANGED << clo_demangle, sobuf, fnbuf, buf_len, demangled, heap, nalloc,
                    rawMem, view, call, zout >>

NextRust == RustGate \/ RustScan \/ RustDone

SpecRust == InitRust /\ [][NextRust]_vars

-----------------------------------------------------------------------------
(* The Rust claims, stated over the string on entry (rs.sym) *)

\* the escape table of the comment above rust_is_mangled: token, character
RustEscapeTable ==
    { << << "$", "C", "$" >>, "," >>,
      << << "$", "S", "P", "$" >>, "@" >>,
      << << "$", "B", "P", "$" >>, "*" >>,
      << << "$", "R", "F", "$" >>, "&" >>,
      << << "$", "L", "T", "$" >>, "<" >>,
      << << "$", "G", "T", "$" >>, ">" >>,
      << << "$", "L", "P", "$" >>, "(" >>,
      << << "$", "R", "P", "$" >>, ")" >>,
      << << "$", "u", "2", "0", "$" >>, " " >>,
      << << "$", "u", "2", "2", "$" >>, "\"" >>,
      << << "$", "u", "2", "7", "$" >>, "'" >>,
      << << "$", "u", "2", "b", "$" >>, "+" >>,
      << << "$", "u", "3", "b", "$" >>, ";" >>,
      << << "$", "u", "5", "b", "$" >>, "[" >>,
      << << "$", "u", "5", "d", "$" >>, "]" >>,
      << << "$", "u", "7", "b", "$" >>, "{" >>,
      << << "$", "u", "7", "d", "$" >>, "}" >>,
      << << "$", "u", "7", "e", "$" >>, "~" >> }

\* s has token tok at sequence index k
HasTokenAt(s, k, tok) ==
    /\ k + Len(tok) - 1 <= Len(s)
    /\ SubSeq(s, k, k + Len(tok) - 1) = tok

\* the part of s before the last 19 characters
BeforeHash(s) == SubSeq(s, 1, Len(s) - 19)

\* from sequence index k on, p is made of a-z, A-Z, 0-9, _ : . and table tokens
RECURSIVE OnlyRustText(_, _)
OnlyRustText(p, k) ==
    IF k > Len(p) THEN TRUE
    ELSE IF p[k] = "$"
         THEN \E e \in RustEscapeTable :
                 HasTokenAt(p, k, e[1]) /\ OnlyRustText(p, k + Len(e[1]))
    ELSE /\ p[k] \in LowerChars \cup UpperChars \cup
                      { "0", "1", "2", "3", "4", "5", "6", "7", "8", "9", "_", ":", "." }
         /\ OnlyRustText(p, k + 1)

NoThreeDots(p) ==
    \A k \in 1..(Len(p) - 2) : ~(p[k] = "." /\ p[k + 1] = "." /\ p[k + 2] = ".")

LooksMangled(s) ==
    /\ Len(s) >= 20
    /\ SubSeq(s, Len(s) - 18, Len(s) - 16) = << ":", ":", "h" >>
    /\ \A k \in (Len(s) - 15)..Len(s) :
          s[k] \in { "0", "1", "2", "3", "4", "5", "6", "7", "8", "9",
                     "a", "b", "c", "d", "e", "f" }
    /\ Cardinality({ s[k] : k \in (Len(s) - 15)..Len(s) }) \in 5..15
    /\ OnlyRustText(BeforeHash(s), 1)
    /\ NoThreeDots(BeforeHash(s))

\* C6: rust_is_mangled(s) is true exactly when s is a non-empty prefix followed
\* by "::h" and 16 characters of 0-9a-f that use 5 to 15 distinct values, and the
\* prefix is made only of a-z, A-Z, 0-9, _ : . and tokens of the escape table,
\* with no three dots in a row.
C6_IsMangledIff ==
    pc \in { "scan", "skip", "done" } => (rs.mangled <=> LooksMangled(rs.sym))

\* C6 witness: the gate accepted a string with a token before a 15-value hash,
\* so the decoder is entered
C6_Witness ==
    /\ pc = "scan"
    /\ rs.mangled
    /\ \E k \in 1..Len(rs.sym) : rs.sym[k] = "$"
    /\ Cardinality({ rs.sym[k] : k \in (Len(rs.sym) - 15)..Len(rs.sym) }) = 15

\* the rewrite of p from sequence index k on, by the rules of claim C7
RECURSIVE Rewritten(_, _)
Rewritten(p, k) ==
    IF k > Len(p) THEN << >>
    ELSE IF \E e \in RustEscapeTable : HasTokenAt(p, k, e[1])
         THEN LET e == CHOOSE e \in RustEscapeTable : HasTokenAt(p, k, e[1])
              IN  << e[2] >> \o Rewritten(p, k + Len(e[1]))
    ELSE IF p[k] = "." /\ k < Len(p) /\ p[k + 1] = "."
         THEN << ":", ":" >> \o Rewritten(p, k + 2)
    ELSE IF p[k] = "." THEN << "-" >> \o Rewritten(p, k + 1)
    ELSE IF /\ p[k] = "_"
            /\ (k = 1 \/ p[k - 1] = ":")
            /\ k < Len(p) /\ p[k + 1] = "$"
         THEN Rewritten(p, k + 1)
    ELSE << p[k] >> \o Rewritten(p, k + 1)

\* C7: for a buffer that satisfies rust_is_mangled, rust_demangle_sym leaves
\* exactly the rewrite of the part before the hash suffix (tokens to their
\* characters, ".." to "::", "." to "-", an underscore that is first or follows
\* ":" and precedes "$" dropped, the rest copied), never emits "?", and turns
\* the example of the source comment into its original symbol.
C7_RewriteRules ==
    pc = "done" =>
        /\ CStr(rs.buf) = Rewritten(BeforeHash(rs.sym), 1)
        /\ \A k \in 1..Len(CStr(rs.buf)) : CStr(rs.buf)[k] # "?"
        /\ rs.sym = ExampleMangled => CStr(rs.buf) = ExampleOriginal

\* C8: while rust_demangle_sym scans a buffer that satisfies rust_is_mangled
\* the write cursor is at or before the read cursor; once the NUL is written the
\* write cursor is not past the end of the string on entry (out <= never_after)
\* and the string left is no longer than the string on entry.
C8_WriteBehindRead ==
    /\ pc = "scan" => rs.out <= rs.in
    /\ pc = "done" => /\ rs.out <= Len(rs.sym)
                      /\ rs.out - 1 <= rs.in
                      /\ Len(CStr(rs.buf)) <= Len(rs.sym)

\* C8 witness: a finished decode in which ".." was rewritten in place and a
\* token made the write cursor fall behind
C8_Witness ==
    /\ pc = "done"
    /\ \E k \in 1..(Len(rs.sym) - 1) : rs.sym[k] = "." /\ rs.sym[k + 1] = "."
    /\ \E k \in 1..Len(rs.sym) : rs.sym[k] = "$"
    /\ rs.out < rs.in

\* the string rust_demangle_sym has left in the buffer
RustOutput == CStr(rs.buf)

\* the text before the hash of s itself ends in ::h or ..h and 16 hex digits
NestedHash(s) ==
    /\ Len(s) >= 38
    /\ SubSeq(s, Len(s) - 37, Len(s) - 35) \in { << ":", ":", "h" >>, << ".", ".", "h" >> }
    /\ \A k \in (Len(s) - 34)..(Len(s) - 19) :
          \E j \in 1..Len(HexChars) : HexChars[j] = s[k]

-----------------------------------------------------------------------------
(* The Z-decoder claims, stated over the input zout.sym *)

\* the escape alphabet: selector, character
ZAlphabet ==
    { << "a", "*" >>, << "c", ":" >>, << "d", "." >>, << "h", "-" >>,
      << "p", "+" >>, << "s", " " >>, << "u", "_" >>, << "A", "@" >>,
      << "D", "$" >>, << "L", "(" >>, << "P", "%" >>, << "R", ")" >>,
      << "S", "/" >>, << "Z", "Z" >> }

IsSelector(c) == \E e \in ZAlphabet : e[1] = c

\* from sequence index k on, every Z of s is followed by a selector
RECURSIVE WellEscaped(_, _)
WellEscaped(s, k) ==
    IF k > Len(s) THEN TRUE
    ELSE IF s[k] # "Z" THEN WellEscaped(s, k + 1)
    ELSE k < Len(s) /\ IsSelector(s[k + 1]) /\ WellEscaped(s, k + 2)

\* the table decoding of s from sequence index k on, up to the first Z that no
\* selector follows
RECURSIVE TableDecoded(_, _)
TableDecoded(s, k) ==
    IF k > Len(s) THEN << >>
    ELSE IF s[k] # "Z" THEN << s[k] >> \o TableDecoded(s, k + 1)
    ELSE IF k < Len(s) /\ IsSelector(s[k + 1])
         THEN << (CHOOSE e \in ZAlphabet : e[1] = s[k + 1])[2] >>
              \o TableDecoded(s, k + 2)
    ELSE << >>

\* `_vg` (r|w) DDDDD `Z` (Z|U) `_`, with 0000 followed by 0
GoodHeader(s) ==
    /\ Len(s) >= 12
    /\ SubSeq(s, 1, 3) = << "_", "v", "g" >>
    /\ s[4] \in { "r", "w" }
    /\ \A k \in 5..9 : s[k] \in { "0", "1", "2", "3", "4", "5", "6", "7", "8", "9" }
    /\ s[10] = "Z"
    /\ s[11] \in { "Z", "U" }
    /\ s[12] = "_"
    /\ (SubSeq(s, 5, 8) = << "0", "0", "0", "0" >> => s[9] = "0")

\* what follows the header
ZBody(s) == SubSeq(s, 13, Len(s))

HasDelimiter(s) == \E k \in 1..Len(ZBody(s)) : ZBody(s)[k] = "_"

\* index in the body of the `_` that ends the soname field (body length + 1 if none)
DelimiterAt(s) ==
    IF HasDelimiter(s)
    THEN CHOOSE k \in 1..Len(ZBody(s)) :
            ZBody(s)[k] = "_" /\ \A j \in 1..(k - 1) : ZBody(s)[j] # "_"
    ELSE Len(ZBody(s)) + 1

SoField(s) == SubSeq(ZBody(s), 1, DelimiterAt(s) - 1)

FnField(s) == SubSeq(ZBody(s), DelimiterAt(s) + 1, Len(ZBody(s)))

InGrammar(s) ==
    /\ GoodHeader(s)
    /\ HasDelimiter(s)
    /\ WellEscaped(SoField(s), 1)
    /\ (s[11] = "Z" => WellEscaped(FnField(s), 1))

\* the five bytes after the header are VG_Z_ as they stand
RawVGZ(s) == Len(s) >= 17 /\ SubSeq(s, 13, 17) = << "V", "G", "_", "Z", "_" >>

Called == pc \in { "ret", "fatal" } /\ zout.ret # "none"

\* the metadata out-parameters that were asked for hold what the header says
MetaFromHeader ==
    /\ zout.a.isWrap => zout.isWrap = (IF zout.sym[4] = "w" THEN "true" ELSE "false")
    /\ zout.a.eclassTag =>
          zout.eclassTag = 1000 * DigitVal(zout.sym[5]) + 100 * DigitVal(zout.sym[6])
                           + 10 * DigitVal(zout.sym[7]) + DigitVal(zout.sym[8])
    /\ zout.a.eclassPrio => zout.eclassPrio = DigitVal(zout.sym[9])
    /\ (zout.a.eclassTag /\ zout.a.eclassPrio /\ zout.eclassTag = 0)
          => zout.eclassPrio = 0

MetaUnwritten ==
    zout.isWrap = "unset" /\ zout.eclassTag = UnsetInt /\ zout.eclassPrio = UnsetInt

SuccessOutputs ==
    /\ MetaFromHeader
    /\ zout.fnSet /\ (zout.soSet <=> zout.a.so)
    /\ zout.a.so => sobuf = TableDecoded(SoField(zout.sym), 1)
    /\ fnbuf = IF zout.sym[11] = "Z" THEN TableDecoded(FnField(zout.sym), 1)
               ELSE FnField(zout.sym)

\* C3 as stated: maybe_z_demangle succeeds exactly on the inputs of the grammar,
\* every other input is a decode failure, and on success the outputs are the
\* header's metadata and the decoded fields.
C3_SucceedsExactlyOnGrammar ==
    Called =>
        /\ zout.ret = "True" <=> InGrammar(zout.sym)
        /\ ~InGrammar(zout.sym) => zout.ret = "False"
        /\ zout.ret = "True" => SuccessOutputs

\* C3 amended: among the inputs whose five bytes after a valid header are not
\* VG_Z_ (those end in the assertion), maybe_z_demangle succeeds exactly on the
\* inputs of the grammar and every other one is a decode failure; on success
\* the outputs are the header's metadata and the decoded fields.
C3_SucceedsOnGrammarUnlessFatal ==
    Called =>
        /\ ~(GoodHeader(zout.sym) /\ RawVGZ(zout.sym)) =>
              /\ zout.ret = "True" <=> InGrammar(zout.sym)
              /\ ~InGrammar(zout.sym) => zout.ret = "False"
        /\ zout.ret = "True" => SuccessOutputs

\* C3 witness: a wrap specifier with tag 1234, priority 5 and an escape in the
\* function name decoded with every out-parameter asked for
C3_Witness ==
    /\ pc = "ret"
    /\ zout.ret = "True"
    /\ zout.a = AllArgs
    /\ zout.isWrap = "true" /\ zout.eclassTag = 1234 /\ zout.eclassPrio = 5
    /\ sobuf # << >>
    /\ fnbuf = << "_" >>

\* C4 as stated: a valid header and a soname field that Z-decodes to a string
\* beginning with VG_Z_ always ends in the assertion.
C4_FatalOnDecodedPrefix ==
    ( /\ Called
      /\ GoodHeader(zout.sym)
      /\ WellEscaped(SoField(zout.sym), 1)
      /\ Len(TableDecoded(SoField(zout.sym), 1)) >= 5
      /\ SubSeq(TableDecoded(SoField(zout.sym), 1), 1, 5) = << "V", "G", "_", "Z", "_" >> )
    => zout.ret = "fatal"

\* C4 amended: the assertion is taken exactly by the inputs with a valid header
\* whose five bytes after the header are VG_Z_ as they stand (not decoded);
\* such an input never returns success or failure.
C4_FatalOnRawPrefix ==
    Called => (zout.ret = "fatal" <=> (GoodHeader(zout.sym) /\ RawVGZ(zout.sym)))

\* C4 witness: the process ended in the assertion on an input that carries an
\* un-encoded function name after the VG_Z_ bytes
C4_Witness ==
    /\ pc = "fatal"
    /\ zout.ret = "fatal"
    /\ zout.sym[11] = "U"
    /\ Len(zout.sym) > 17

\* C5 as stated: a failing call writes none of the out-parameters and exposes
\* no partially decoded name.
C5_FailureWritesNothing ==
    (Called /\ zout.ret = "False") =>
        /\ ~zout.soSet /\ ~zout.fnSet
        /\ MetaUnwritten
        /\ sobuf = << >> /\ fnbuf = << >>

\* C5 amended: a failing call returns False having pointed fn (and so, when
\* given) at the scratch buffers; on a malformed header nothing else is written
\* and both buffers hold the empty string; on a later failure the metadata
\* out-parameters that were given hold the header's values and the buffers hold
\* what was decoded before the failure.
C5_FailureLeavesPartial ==
    (Called /\ zout.ret = "False") =>
        /\ zout.fnSet /\ (zout.soSet <=> zout.a.so)
        /\ IF ~GoodHeader(zout.sym)
           THEN MetaUnwritten /\ sobuf = << >> /\ fnbuf = << >>
           ELSE /\ MetaFromHeader
                /\ sobuf = IF zout.a.so THEN TableDecoded(SoField(zout.sym), 1)
                           ELSE << >>
                /\ fnbuf = IF HasDelimiter(zout.sym) /\ WellEscaped(SoField(zout.sym), 1)
                           THEN TableDecoded(FnField(zout.sym), 1)
                           ELSE << >>

\* C5 witness: a failure at an unknown selector in the function name, after the
\* metadata and a decoded soname were written
C5_Witness ==
    /\ pc = "ret"
    /\ zout.ret = "False"
    /\ zout.a = AllArgs
    /\ zout.eclassTag = 1234
    /\ sobuf # << >>
    /\ fnbuf # << >>

-----------------------------------------------------------------------------
(* VG_(demangle) and its callers *)

\* most heap blocks the stage-1 demangler hands out in one run
MaxAllocs == 2

FnbufPtr == [reg |-> "fnbuf", id |-> 0]

RawPtr(slot) == [reg |-> "raw", id |-> slot]

HeapPtr(id) == [reg |-> "heap", id |-> id]

RawSlots == 1..2

\* the string at p in a memory made of the caller's strings rm, fnbuf fb, heap h
StrAt(p, rm, fb, h) ==
    CASE p.reg = "raw" -> rm[p.id]
      [] p.reg = "fnbuf" -> fb
      [] p.reg = "heap" -> h[p.id].str
      [] OTHER -> << >>

Deref(p) == StrAt(p, rawMem, fnbuf, heap)

IsLive(p) == p.reg # "heap" \/ heap[p.id].live

\* ReleaseHeld leaking the previous block
ReleaseHeld_Never(h, d) == h

\* ReleaseHeld freeing the previous block a second time
ReleaseHeld_Twice(h, d) ==
    IF d # 0
    THEN [h EXCEPT ![d] = [live |-> FALSE, str |-> << >>, frees |-> h[d].frees + 2]]
    ELSE h

\* if (demangled) { VG_(arena_free)(VG_AR_DEMANGLE, demangled); demangled = NULL; }
ReleaseHeld(h, d) ==
    IF d # 0
    THEN [h EXCEPT ![d] = [live |-> FALSE, str |-> << >>, frees |-> h[d].frees + 1]]
    ELSE h

\* Stage1Reached without the test for the _Z marker
Stage1Reached_NoMarker(do_cxx, clo, pre) == do_cxx /\ clo

\* do_cxx_demangling && VG_(clo_demangle) && orig != NULL
\*    && orig[0] == '_' && orig[1] == 'Z'
Stage1Reached(do_cxx, clo, pre) ==
    do_cxx /\ clo /\ At(pre, 0) = "_" /\ At(pre, 1) = "Z"

\* InPlaceTarget decoding the string stage 1 was given
InPlaceTarget_Orig(orig, dem) == orig

\* the argument of rust_is_mangled(demangled) and rust_demangle_sym(demangled)
InPlaceTarget(orig, dem) == dem

\* what ML_(cplus_demangle) may return: no result, or a fresh heap string
NoResult == [ok |-> FALSE, str |-> << >>]

PlainResult == [ok |-> TRUE, str |-> << "f", "(", ")" >>]

S1Results ==
    { NoResult,
      PlainResult,
      [ok |-> TRUE, str |-> << "_", "$", "L", "T", "$", "a", ".", ".", "b", "$", "G", "T", "$" >>
                            \o hash_prefix \o ExampleHash] }

\* the raw symbols callers pass
DemInputs ==
    { << >>,
      << "_", "Z", "1", "f" >>,
      << "_", "Z", "a" >> \o hash_prefix \o ExampleHash,
      << "_", "v", "g", "r", "0", "0", "0", "0", "0", "Z", "U", "_",
         "l", "i", "b", "c", "_", "_", "Z", "1", "f" >>,
      << "_", "v", "g", "r", "0", "0", "0", "0", "0", "Z", "U", "_",
         "s", "o", "_", "_", "Z", "a" >> \o hash_prefix \o ExampleHash,
      << "_", "v", "g", "w", "1", "2", "3", "4", "5", "Z", "Z", "_",
         "a", "Z", "a", "_", "m", "a", "Z", "u", "c" >>,
      << "_", "v", "g", "r", "0", "0", "0", "0", "0", "Z", "Z", "_", "a", "_", "b", "Z", "q" >>,
      << "_", "v", "g", "r", "0", "0", "0", "0", "0", "Z", "U", "_",
         "V", "G", "_", "Z", "_", "x" >> }

\* VG_(maybe_Z_demangle) on the callers' symbols with buf_len 0, worked out once
ZOnInputs ==
    [s \in DemInputs |-> [so \in BOOLEAN |->
        maybe_Z_demangle(s, IF so THEN AllArgs ELSE NoArgs, 0)]]

\* VG_(maybe_Z_demangle)(sym, ...) with buf_len blen on entry
ZCallOn(sym, a, blen) ==
    IF sym \in DOMAIN ZOnInputs /\ a \in { NoArgs, AllArgs }
    THEN [ZOnInputs[sym][a.so] EXCEPT !.buf_len = GrowBufLen(blen, Len(sym) + 1)]
    ELSE maybe_Z_demangle(sym, a, blen)

\* the Rust gate and decoder on what stage 1 returns, worked out once
RustOnResults ==
    [s \in { x.str : x \in S1Results } |->
        [mangled |-> rust_is_mangled(s), decoded |-> rust_demangle_sym(s)]]

\* rust_is_mangled(s)
RustGateOn(s) ==
    IF s \in DOMAIN RustOnResults THEN RustOnResults[s].mangled ELSE rust_is_mangled(s)

\* the string rust_demangle_sym leaves in a buffer holding s
RustDecodeOn(s) ==
    IF s \in DOMAIN RustOnResults THEN RustOnResults[s].decoded
    ELSE rust_demangle_sym(s)

\* the caller's strings once the caller has dropped those no view points into
KeepViewed(rm, v) ==
    [s \in RawSlots |-> IF v.ptr = RawPtr(s) THEN rm[s] ELSE << >>]

\* the slot the caller passes raw in: the viewed string itself when raw is that
\* string again, or else the first slot no view points into
MayPass(slot, raw) ==
    IF view.ptr.reg = "raw" /\ raw = rawMem[view.ptr.id]
    THEN slot = view.ptr.id
    ELSE slot = CHOOSE s \in RawSlots : view.ptr # RawPtr(s)

Init ==
    /\ pc = "idle"
    /\ clo_demangle \in BOOLEAN
    /\ sobuf = << >> /\ fnbuf = << >> /\ buf_len = 0
    /\ demangled = 0 /\ heap = << >> /\ nalloc = 0
    /\ rawMem = [s \in RawSlots |-> << >>]
    /\ view = NoView /\ call = NoCall /\ zout = NoZOut /\ rs = NoRs

\* if (do_z_demangling) { if (VG_(maybe_Z_demangle)(orig, NULL, &z_demangled,
\*    NULL, NULL, NULL)) orig = z_demangled; }   r is what that call does
ZStage(do_z, slot, raw, r) ==
    IF do_z
    THEN [fatal |-> r.ret = "fatal", so |-> r.so, fn |-> r.fn, buf_len |-> r.buf_len,
          prePtr |-> IF r.ret = "True" THEN FnbufPtr ELSE RawPtr(slot),
          pre |-> IF r.ret = "True" THEN r.fn ELSE raw]
    ELSE [fatal |-> FALSE, so |-> sobuf, fn |-> fnbuf, buf_len |-> buf_len,
          prePtr |-> RawPtr(slot), pre |-> raw]

\* the free of the previous result and ML_(cplus_demangle) answering s1, if the
\* condition of stage 1 holds for the string z.pre
CxxStage(do_cxx, s1, z) ==
    IF Stage1Reached(do_cxx, clo_demangle, z.pre)
    THEN IF s1.ok
         THEN [reached |-> TRUE, got |-> TRUE, dem |-> nalloc + 1,
               heap |-> Append(ReleaseHeld(heap, demangled),
                               [live |-> TRUE, str |-> s1.str, frees |-> 0])]
         ELSE [reached |-> TRUE, got |-> FALSE, dem |-> 0,
               heap |-> ReleaseHeld(heap, demangled)]
    ELSE [reached |-> FALSE, got |-> FALSE, dem |-> demangled, heap |-> heap]

\* if (rust_is_mangled(demangled)) rust_demangle_sym(demangled);  on memory m
RustStage(m, tgt, mangled, dec) ==
    IF ~mangled THEN m
    ELSE CASE tgt.reg = "fnbuf" -> [m EXCEPT !.fnbuf = dec]
           [] tgt.reg = "raw" -> [m EXCEPT !.rawMem[tgt.id] = dec]
           [] tgt.reg = "heap" -> [m EXCEPT !.heap[tgt.id].str = dec]
           [] OTHER -> m

\* the memory after the rust stage of a call that got c from stage 1
AfterRust(c, m, tgt) ==
    IF c.got
    THEN RustStage(m, tgt, RustGateOn(c.heap[c.dem].str),
                   RustDecodeOn(StrAt(tgt, m.rawMem, m.fnbuf, m.heap)))
    ELSE m

\* the state VG_(demangle) returns in, z and c being what its stages did
DemangleReturn(do_cxx, do_z, slot, raw, s1, z, c, m) ==
    /\ c.got => nalloc < MaxAllocs
    /\ ~c.reached => s1 \in { NoResult, PlainResult }
    /\ pc' = "ret"
    /\ sobuf' = z.so /\ buf_len' = z.buf_len
    /\ fnbuf' = m.fnbuf /\ rawMem' = m.rawMem /\ heap' = m.heap
    /\ demangled' = c.dem
    /\ nalloc' = IF c.got THEN nalloc + 1 ELSE nalloc
    /\ view' = [view EXCEPT !.zsince = view.zsince \/ do_z]
    /\ call' = [kind |-> "demangle", do_cxx |-> do_cxx, do_z |-> do_z,
                raw |-> raw, orig |-> RawPtr(slot), pre |-> z.prePtr,
                reached1 |-> c.reached, avail |-> s1.ok,
                s1 |-> IF ~c.reached THEN "notrun" ELSE IF c.got THEN "ok" ELSE "none",
                s1str |-> IF c.got THEN s1.str ELSE << >>,
                result |-> IF c.got THEN HeapPtr(c.dem) ELSE z.prePtr,
                held |-> demangled]

\* the assertion in VG_(maybe_Z_demangle) ends the process
DemangleFatal(do_cxx, do_z, slot, raw, z) ==
    /\ pc' = "fatal"
    /\ sobuf' = z.so /\ fnbuf' = z.fn /\ buf_len' = z.buf_len
    /\ rawMem' = [rawMem EXCEPT ![slot] = raw]
    /\ call' = [NoCall EXCEPT !.kind = "demangle", !.do_cxx = do_cxx,
                              !.do_z = do_z, !.raw = raw,
                              !.orig = RawPtr(slot), !.held = demangled]
    /\ view' = [view EXCEPT !.zsince = TRUE]
    /\ UNCHANGED << demangled, heap, nalloc >>

\* the stages of VG_(demangle) after the Z stage z
DemangleFrom(do_cxx, do_z, slot, raw, s1, z, c) ==
    IF z.fatal
    THEN DemangleFatal(do_cxx, do_z, slot, raw, z)
    ELSE DemangleReturn(do_cxx, do_z, slot, raw, s1, z, c,
            AfterRust(c, [fnbuf |-> z.fn, rawMem |-> [rawMem EXCEPT ![slot] = raw],
                          heap |-> c.heap],
                      InPlaceTarget(z.prePtr, HeapPtr(c.dem))))

\* VG_(demangle)(do_cxx, do_z, raw, &result), raw in the caller's slot, stage 1
\* answering s1 if it is asked
Demangle ==
    /\ pc = "idle"
    /\ \E do_cxx \in BOOLEAN, do_z \in BOOLEAN, slot \in RawSlots,
          raw \in DemInputs, s1 \in S1Results :
        /\ MayPass(slot, raw)
        /\ zout' = IF do_z THEN ZOutOf(raw, NoArgs, ZCallOn(raw, NoArgs, buf_len))
                   ELSE NoZOut
        /\ DemangleFrom(do_cxx, do_z, slot, raw, s1,
                        ZStage(do_z, slot, raw, ZCallOn(raw, NoArgs, buf_len)),
                        CxxStage(do_cxx, s1,
                                 ZStage(do_z, slot, raw, ZCallOn(raw, NoArgs, buf_len))))
    /\ UNCHANGED << clo_demangle, rs >>

\* a direct call VG_(maybe_Z_demangle)(sym, so, &fn, isWrap, eclassTag, eclassPrio)
ZDirect ==
    /\ pc = "idle"
    /\ \E slot \in RawSlots, sym \in DemInputs, a \in { NoArgs, AllArgs } :
        LET r == ZCallOn(sym, a, buf_len)
        IN  /\ MayPass(slot, sym)
            /\ pc' = IF r.ret = "fatal" THEN "fatal" ELSE "ret"
            /\ sobuf' = r.so /\ fnbuf' = r.fn /\ buf_len' = r.buf_len
            /\ zout' = ZOutOf(sym, a, r)
            /\ rawMem' = [rawMem EXCEPT ![slot] = sym]
            /\ view' = [view EXCEPT !.zsince = TRUE]
            /\ call' = [NoCall EXCEPT !.kind = "z", !.raw = sym, !.orig = RawPtr(slot),
                                      !.result = FnbufPtr, !.held = demangled]
    /\ UNCHANGED << clo_demangle, demangled, heap, nalloc, rs >>

\* the caller stashes the pointer it was handed, in place of any earlier one
CallerStash ==
    /\ pc = "ret"
    /\ view' = [ptr |-> call.result, by |-> call.kind, snap |-> Deref(call.result),
                zsince |-> FALSE]
    /\ rawMem' = KeepViewed(rawMem, view')
    /\ call' = NoCall /\ zout' = NoZOut
    /\ pc' = "idle"
    /\ UNCHANGED << clo_demangle, sobuf, fnbuf, buf_len, demangled, heap, nalloc, rs >>

\* the caller uses the result at once and keeps the pointer it stashed earlier
CallerDrop ==
    /\ pc = "ret"
    /\ rawMem' = KeepViewed(rawMem, view)
    /\ call' = NoCall /\ zout' = NoZOut
    /\ pc' = "idle"
    /\ UNCHANGED << clo_demangle, sobuf, fnbuf, buf_len, demangled, heap, nalloc,
                    view, rs >>

Next == Demangle \/ ZDirect \/ CallerStash \/ CallerDrop

Spec == Init /\ [][Next]_vars

-----------------------------------------------------------------------------
(* Claims about VG_(demangle) and sequences of calls, under Spec *)

\* a VG_(demangle) call has just returned
DemangleReturned == pc = "ret" /\ call.kind = "demangle"

\* the caller holds a pointer into a stage-1 result that an earlier call returned
HeapView == view.ptr.reg = "heap"

PreStage1(do_z, raw) ==
    IF do_z /\ InGrammar(raw)
    THEN IF raw[11] = "Z" THEN TableDecoded(FnField(raw), 1) ELSE FnField(raw)
    ELSE raw

HasMarker(s) == Len(s) >= 2 /\ s[1] = "_" /\ s[2] = "Z"

\* what VG_(demangle) hands back when stage 1 counts as run (staged) or not,
\* and what it leaves in raw and in the Z-decoded name
ResultIs(staged) ==
    /\ IF staged
       THEN /\ call.result.reg = "heap"
            /\ heap[call.result.id].live
            /\ Deref(call.result) = IF LooksMangled(call.s1str)
                                    THEN rust_demangle_sym(call.s1str)
                                    ELSE call.s1str
       ELSE /\ call.result.reg \in { "raw", "fnbuf" }
            /\ Deref(call.result) = PreStage1(call.do_z, call.raw)
    /\ Deref(call.orig) = call.raw
    /\ (call.do_z /\ InGrammar(call.raw)) => fnbuf = PreStage1(call.do_z, call.raw)

\* C2 as stated: the stage-1 result, Rust-decoded iff the heuristic holds for it,
\* when do_cxx is set, the pre-stage-1 string begins _Z and the stage-1 demangler
\* has a result for it; the pre-stage-1 string unchanged in every other case.
C2_ResultByStage ==
    DemangleReturned =>
        ResultIs(call.do_cxx /\ HasMarker(PreStage1(call.do_z, call.raw)) /\ call.avail)

\* C2 amended: the stage-1 result, Rust-decoded in place iff the heuristic holds
\* for it, when demangling is enabled, do_cxx is set, the pre-stage-1 string
\* begins _Z and the stage-1 demangler has a result for it; in every other case
\* the pre-stage-1 string unchanged; raw and the Z-decoded name are never
\* Rust-decoded.
C2_ResultByStageWhenEnabled ==
    DemangleReturned =>
        ResultIs(clo_demangle /\ call.do_cxx
                 /\ HasMarker(PreStage1(call.do_z, call.raw)) /\ call.avail)

\* C2 witness: raw Z-decodes to a name beginning _Z, stage 1 returns a string
\* the heuristic accepts, and the result is that string rewritten
C2_Witness ==
    /\ DemangleReturned
    /\ call.do_z /\ InGrammar(call.raw)
    /\ call.result.reg = "heap"
    /\ LooksMangled(call.s1str)
    /\ Deref(call.result) # call.s1str

\* a VG_(maybe_Z_demangle) call, direct or from VG_(demangle), has just ended
ZReturned == pc \in { "ret", "fatal" } /\ zout.ret # "none"

\* C9: after any sequence of calls the buffers hold at least input length + 1
\* bytes, every index written in sobuf and fnbuf (the closing NULs included) is
\* below that capacity, and neither decoded string is longer than the input.
C9_WritesInsideCapacity ==
    ZReturned =>
        /\ buf_len = zout.cap
        /\ zout.cap >= Len(zout.sym) + 1
        /\ zout.sohi < zout.cap
        /\ zout.fnhi < zout.cap
        /\ Len(sobuf) <= Len(zout.sym)
        /\ Len(fnbuf) <= Len(zout.sym)

\* C9 witness: a successful call that writes both names into buffers sized by
\* an earlier, longer input
C9_Witness ==
    /\ ZReturned
    /\ zout.ret = "True"
    /\ zout.cap > Len(zout.sym) + 1
    /\ zout.sohi > 0 /\ zout.fnhi > 0
    /\ Len(sobuf) > 0 /\ Len(fnbuf) > 0

\* the caller holds a string a demangle call returned that is no stage-1 result
OtherView == view.by = "demangle" /\ view.ptr.reg \in { "raw", "fnbuf" }

\* C10 as stated: a string an earlier demangle call returned that is no view into
\* the stage-1 result (raw, or the Z-decoded function name) keeps its contents
\* across every later call.
C10_OtherStringsKept ==
    OtherView => Deref(view.ptr) = view.snap

\* C10 amended: raw keeps its contents across every later call; the Z-decoded
\* function name keeps its contents until the next call of
\* VG_(maybe_Z_demangle), direct or from a demangle call with do_z set.
C10_RawKeptNameUntilNextZ ==
    OtherView =>
        \/ Deref(view.ptr) = view.snap
        \/ view.ptr.reg = "fnbuf" /\ view.zsince

\* C10 witness: a later demangle call has run stage 1 and the Rust decoder, and
\* the Z-decoded name an earlier call returned still reads as it did
C10_Witness ==
    /\ OtherView /\ view.ptr.reg = "fnbuf" /\ ~view.zsince
    /\ DemangleReturned /\ call.result.reg = "heap"
    /\ Deref(call.result) # call.s1str
    /\ Len(view.snap) > 0 /\ Deref(view.ptr) = view.snap

\* the stage-1 results that are allocated
LiveBlocks == { i \in 1..Len(heap) : heap[i].live }

\* at most one stage-1 result is held, it is the one the orchestrator points
\* at, every other one has been released once, and after a stage-1 invocation
\* without a result none is held
HeldAtMostOne ==
    /\ Cardinality(LiveBlocks) <= 1
    /\ LiveBlocks = IF demangled = 0 THEN { } ELSE { demangled }
    /\ \A i \in 1..Len(heap) : heap[i].frees = IF heap[i].live THEN 0 ELSE 1
    /\ (DemangleReturned /\ call.reached1 /\ call.s1 = "none") =>
          demangled = 0 /\ LiveBlocks = { }

\* a step releases a stage-1 result only as the block held at the start of a
\* demangle call that reaches stage 1, and releases it once
ReleasedAtStage1Only ==
    \A i \in 1..Len(heap) :
        /\ i <= Len(heap')
        /\ heap'[i].live => heap[i].live
        /\ heap'[i].frees # heap[i].frees =>
              /\ i = demangled
              /\ pc = "idle" /\ pc' = "ret"
              /\ call'.kind = "demangle" /\ call'.reached1 /\ call'.held = i
              /\ heap'[i].frees = heap[i].frees + 1

\* C12: in every reachable state at most one stage-1 result is held; each is
\* released once, at the release point before the next stage-1 invocation and
\* nowhere else; after a stage-1 invocation with no result none is held.
C12_OneHeldReleasedOnce == []HeldAtMostOne /\ [][ReleasedAtStage1Only]_vars

\* C12 witness: a call that reached stage 1 released the result of an earlier
\* call, got no result, and holds nothing
C12_Witness ==
    /\ DemangleReturned
    /\ call.reached1 /\ call.s1 = "none"
    /\ call.held # 0
    /\ heap[call.held].frees = 1 /\ ~heap[call.held].live
    /\ demangled = 0

=============================================================================
